---- MODULE Spec2Model ----
(***************************************************************************)
(* The game coordinator's Application object                               *)
(* (src/game_coordinator/application/coordinator.py): the server registry  *)
(* self._servers, the token table self._tokens, the peer sessions and the  *)
(* tasks it schedules on the event loop.                                   *)
(*                                                                         *)
(* The handlers are coroutines of one cooperative event loop: each action  *)
(* below is the code of a handler between two suspension points (await).   *)
(* helpers/invite_code.py, helpers/server.py, helpers/token_connect.py and *)
(* helpers/token_verify.py are not part of the source tree at hand; the    *)
(* definitions that stand for them follow the design document.             *)
(***************************************************************************)
EXTENDS Integers, Sequences, FiniteSets, TLC

\* ------------------------------------------------------------------ bounds

\* Largest ordinal database.get_server_id() hands out; the invite codes peers
\* and the database name are the ones generated from 1..MaxOrdinal.
MaxOrdinal == 2
\* Number of handler steps (frames, database callbacks, task runs) of a run.
MaxSteps == 4

\* The peer sessions (source objects) that connect.
Peers == {"p1", "p2"}
\* The values secrets.token_hex(16) returns.
TokenKeys == {"t1", "t2"}
Ordinals == 1..MaxOrdinal

\* ------------------------------------------------------------ plain values

NoPeer == "nobody"
NoServer == <<>>
NoCall == <<>>
Idle == <<>>
EmptyString == <<>>
\* server.info = {} (falsy), and a field a server has not been given yet.
NoInfo == "none"
\* The openttd_version of an info block: the one field of info the
\* coordinator reads.
Versions == {"v1", "v2"}

\* The process-wide shared secret captured at construction.
SharedSecret == "shared"

\* An invite code is a string; the model keeps its first character and the
\* ordinal the rest encodes.
generate_invite_code(n) == <<"+", n>>

\* The secret bound to an invite code: a keyed MAC over the code.
generate_invite_code_secret(shared, code) == <<"mac", shared, code>>

validate_invite_code_secret(shared, code, secret) ==
    secret = generate_invite_code_secret(shared, code)

Codes == {generate_invite_code(n) : n \in Ordinals}
\* A code that does not start with "+".
NoPlusCode == <<"x", 1>>
\* What a peer may put in the invite_code field of a frame.
InviteInputs == {EmptyString, NoPlusCode} \cup Codes
\* What a peer may put in the invite_code_secret field.
SecretInputs == {EmptyString} \cup {generate_invite_code_secret(SharedSecret, c) : c \in Codes}

\* A token on the wire: a one-character prefix and the 32 hex characters.
Prefixes == {"S", "C"}
WireTokens == {<<x, k>> : x \in Prefixes, k \in TokenKeys}

\* ------------------------------------------------------------------ state

VARIABLES
    servers,   \* self._servers: server_id -> Server | ServerExternal
    tokens,    \* self._tokens: token -> TokenVerify | TokenConnect
    ordinal,   \* the last ordinal database.get_server_id() returned
    conn,      \* per peer session: "open", "closed" (transport.close() called), "gone" (disconnect() delivered)
    srv,       \* per peer session: source.server.server_id, or NoServer when the attribute is not set
    wait,      \* per peer session: the handler of that session suspended at an await
    tasks,     \* tasks created with asyncio.create_task, in the order the loop runs them
    order,     \* the keys of self._servers in the order the dict iterates them
    newgrf,    \* self._newgrf_lookup_table: the entries in the order the dict iterates them
    steps,     \* handler steps taken so far
    last       \* what the step just taken did (the frames it sent, the flow method it invoked)

vars == <<servers, tokens, ordinal, conn, srv, wait, tasks, order, newgrf, steps, last>>

\* Server(application, server_id, game_type, source, server_port, invite_code_secret)
\* A new server has connection type UNKNOWN, no info, no NewGRFs and no direct IP.
LocalServer(source, secret) ==
    [kind |-> "Local", src |-> source, secret |-> secret,
     ctype |-> "UNKNOWN", info |-> NoInfo, newgrfs |-> NoInfo, ip |-> NoInfo]

\* ServerExternal(application, server_id)
ExternalServer ==
    [kind |-> "External", src |-> NoPeer, secret |-> EmptyString,
     ctype |-> "UNKNOWN", info |-> NoInfo, newgrfs |-> NoInfo, ip |-> NoInfo]

\* TokenVerify(application, source, protocol_version, token, server)
TokenVerify(source, sid, server) ==
    [kind |-> "verify", src |-> source, sid |-> sid, ssrc |-> server.src, state |-> "verifying"]

\* TokenConnect(application, source, protocol_version, token, server)
TokenConnect(source, sid, server) ==
    [kind |-> "connect", src |-> source, sid |-> sid, ssrc |-> server.src, state |-> "bound"]

\* The record of a step: the handler, its session, its argument (an invite
\* code, a server_id or a token), whether its lookup or validation succeeded,
\* the frames it sent, the flow method it invoked, whether it raised, and the
\* kind of the registry entry SERVER_REGISTER found under the server_id.
Step(op, source, arg, hit, sent, call, fault) ==
    [op |-> op, src |-> source, arg |-> arg, hit |-> hit, sent |-> sent, call |-> call,
     fault |-> fault, prev |-> "-"]

KindOf(reg, server_id) == IF server_id \in DOMAIN reg THEN reg[server_id].kind ELSE "none"

Frame(to, name, a, b) == [to |-> to, name |-> name, a |-> a, b |-> b]

Init ==
    /\ servers = <<>>
    /\ tokens = <<>>
    /\ ordinal = 0
    /\ conn = [p \in Peers |-> "open"]
    /\ srv = [p \in Peers |-> NoServer]
    /\ wait = [p \in Peers |-> Idle]
    /\ tasks = <<>>
    /\ order = <<>>
    /\ newgrf = <<>>
    /\ steps = 0
    /\ last = Step("init", NoPeer, <<>>, FALSE, <<>>, NoCall, FALSE)

\* Every action is one handler step.
Tick == steps < MaxSteps /\ steps' = steps + 1

\* A frame of a session is handled while the session is up and its previous
\* handler has returned.
Ready(p) == conn[p] = "open" /\ wait[p] = Idle

\* ---------------------------------------------------------------- helpers

\* d[k] removed from the mapping d.
Without(d, k) == [x \in DOMAIN d \ {k} |-> d[x]]

\* d with d[k] = v, k new or not.
With(d, k, v) == (k :> v) @@ d

\* The keys of a dict iterate in the order they were first stored: storing
\* under a key the dict holds keeps the key's place, a new key goes last.
KeyStoredFirst(keys, k) ==
    IF \E i \in 1..Len(keys) : keys[i] = k THEN keys ELSE <<k>> \o keys

KeyStored(keys, k) ==
    IF \E i \in 1..Len(keys) : keys[i] = k THEN keys ELSE Append(keys, k)

\* del d[k]: the other keys keep their order.
KeyDeleted(keys, k) == SelectSeq(keys, LAMBDA x : x # k)

\* ------------------------------------------------- SERVER_REGISTER (144-176)

\* ValidPair with the result of the validation negated.
ValidPairInverted(invite_code, invite_code_secret) ==
    /\ invite_code # EmptyString
    /\ invite_code_secret # EmptyString
    /\ invite_code[1] = "+"
    /\ ~validate_invite_code_secret(SharedSecret, invite_code, invite_code_secret)

\* Lines 147-152: the invite code given is re-used when both fields are
\* non-empty, the code starts with "+" and the secret validates.
ValidPair(invite_code, invite_code_secret) ==
    /\ invite_code # EmptyString
    /\ invite_code_secret # EmptyString
    /\ invite_code[1] = "+"
    /\ validate_invite_code_secret(SharedSecret, invite_code, invite_code_secret)

\* NextFreeOrdinal without the loop: the first ordinal drawn is taken.
NextFreeOrdinalNoLoop(ord, reg) == ord + 1

\* Lines 156-159: database.get_server_id() is called until the generated code
\* is not a key of the registry; the value is the ordinal of the last call.
RECURSIVE NextFreeOrdinal(_, _)
NextFreeOrdinal(ord, reg) ==
    IF generate_invite_code(ord + 1) \notin DOMAIN reg
    THEN ord + 1
    ELSE NextFreeOrdinal(ord + 1, reg)

\* StoreServer that leaves an External entry where it is.
StoreServerUnlessExternal(reg, server_id, server) ==
    IF server_id \in DOMAIN reg /\ reg[server_id].kind = "External"
    THEN reg
    ELSE (server_id :> server) @@ reg

\* Line 164: self._servers[source.server.server_id] = source.server
StoreServer(reg, server_id, server) == With(reg, server_id, server)

\* UnusedTokens without the test against the table.
AnyToken(tbl) == TokenKeys

\* Lines 167-170 and 222-225: the values the loop around secrets.token_hex(16)
\* can leave with.
UnusedTokens(tbl) == TokenKeys \ DOMAIN tbl

\* Lines 144-174, up to the suspension at "await token.connect()".
SERVER_REGISTER(source, invite_code, invite_code_secret) ==
    /\ Tick
    /\ Ready(source)
    /\ LET valid == ValidPair(invite_code, invite_code_secret)
           drawn == IF valid THEN ordinal ELSE NextFreeOrdinal(ordinal, servers)
           server_id == IF valid THEN invite_code ELSE generate_invite_code(drawn)
           secret == IF valid THEN invite_code_secret
                     ELSE generate_invite_code_secret(SharedSecret, server_id)
           server == LocalServer(source, secret)
       IN /\ drawn <= MaxOrdinal
          /\ \E token \in UnusedTokens(tokens) :
                /\ servers' = StoreServer(servers, server_id, server)
                /\ order' = KeyStored(order, server_id)
                /\ srv' = [srv EXCEPT ![source] = server_id]
                /\ ordinal' = drawn
                /\ tokens' = With(tokens, token, TokenVerify(source, server_id, server))
                /\ last' = [Step("SERVER_REGISTER", source, invite_code,
                                 valid, <<>>, <<token, "connect">>, FALSE)
                            EXCEPT !.prev = KindOf(servers, server_id)]
    /\ UNCHANGED <<conn, wait, tasks, newgrf>>

\* ------------------------------------------------- CLIENT_CONNECT (213-233)

\* Line 214: the invite code is refused.
InvalidInvite(invite_code, reg) ==
    IF invite_code = EmptyString THEN TRUE
    ELSE IF invite_code[1] # "+" THEN TRUE
    ELSE invite_code \notin DOMAIN reg

\* CloseTransport left out.
CloseTransportForgotten(c, source) == c

\* Line 218: source.protocol.transport.close(); closing the transport of a
\* connection that is already lost changes nothing.
CloseTransport(c, source) ==
    IF c[source] = "gone" THEN c ELSE [c EXCEPT ![source] = "closed"]

\* Lines 214-217, up to the suspension at the send of GC_ERROR.
CLIENT_CONNECT_invalid(source, invite_code) ==
    /\ Tick
    /\ Ready(source)
    /\ InvalidInvite(invite_code, servers)
    /\ wait' = [wait EXCEPT ![source] = <<"CLIENT_CONNECT_refused">>]
    /\ last' = Step("CLIENT_CONNECT", source, invite_code, FALSE,
                    <<Frame(source, "GC_ERROR", "INVALID_INVITE_CODE", invite_code)>>,
                    NoCall, FALSE)
    /\ UNCHANGED <<servers, tokens, ordinal, conn, srv, tasks, order, newgrf>>

\* Lines 218-219, after the send of GC_ERROR returned: the transport is
\* closed and the handler returns.
CLIENT_CONNECT_close(source) ==
    /\ Tick
    /\ wait[source] # Idle
    /\ wait[source][1] = "CLIENT_CONNECT_refused"
    /\ conn' = CloseTransport(conn, source)
    /\ wait' = [wait EXCEPT ![source] = Idle]
    /\ last' = Step("CLIENT_CONNECT_close", source, EmptyString, FALSE, <<>>, NoCall, FALSE)
    /\ UNCHANGED <<servers, tokens, ordinal, srv, tasks, order, newgrf>>

BindFlowAfterSend(tbl, token, flow) == tbl

\* Line 229: self._tokens[token.token] = token, before the frame is sent.
BindFlow(tbl, token, flow) == With(tbl, token, flow)

\* Lines 221-232, up to the suspension at the send of GC_CONNECTING.
CLIENT_CONNECT_bind(source, invite_code) ==
    /\ Tick
    /\ Ready(source)
    /\ ~InvalidInvite(invite_code, servers)
    /\ \E token \in UnusedTokens(tokens) :
          /\ tokens' = BindFlow(tokens, token, TokenConnect(source, invite_code, servers[invite_code]))
          /\ wait' = [wait EXCEPT ![source] = <<"CLIENT_CONNECT", token>>]
          /\ last' = Step("CLIENT_CONNECT", source, invite_code, TRUE,
                          <<Frame(source, "GC_CONNECTING", <<"C", token>>, invite_code)>>,
                          NoCall, FALSE)
    /\ UNCHANGED <<servers, ordinal, conn, srv, tasks, order, newgrf>>

\* The flow object a suspended handler holds is still the one bound in the table.
SameFlow(tbl, token, source, state) ==
    /\ token \in DOMAIN tbl
    /\ tbl[token].kind = "connect"
    /\ tbl[token].src = source
    /\ tbl[token].state = state

\* Line 233: "await token.connect()" on the flow the handler created; the
\* flow starts its first method.
CLIENT_CONNECT_start(source) ==
    /\ Tick
    /\ wait[source] # Idle
    /\ wait[source][1] = "CLIENT_CONNECT"
    /\ LET token == wait[source][2]
       IN /\ tokens' = IF SameFlow(tokens, token, source, "bound")
                       THEN [tokens EXCEPT ![token].state = "trying"]
                       ELSE tokens
          /\ last' = Step("CLIENT_CONNECT_start", source, token, TRUE, <<>>, <<token, "connect">>, FALSE)
    /\ wait' = [wait EXCEPT ![source] = Idle]
    /\ UNCHANGED <<servers, ordinal, conn, srv, tasks, order, newgrf>>

\* --------------------------------------------------------- the token table

\* Lines 131, 236 and 245: self._tokens.get(token[1:]); the value is the key
\* the frame resolves to, or none.
Resolve(tbl, wire) == IF wire[2] \in DOMAIN tbl THEN {wire[2]} ELSE {}

\* delete_token that deletes nothing.
delete_token_noop(tbl, token) == tbl

\* Lines 53-54: del self._tokens[token]
delete_token(tbl, token) == Without(tbl, token)

\* The flow ends by itself: the verify flow has classified the server, the
\* connect flow has run out of methods. It reports to its peer and drops its
\* token through delete_token.
FlowEnds(token) ==
    /\ Tick
    /\ token \in DOMAIN tokens
    /\ \/ tokens[token].kind = "verify" /\ tokens[token].state = "verifying"
       \/ tokens[token].kind = "connect" /\ tokens[token].state = "trying"
    /\ tokens' = delete_token(tokens, token)
    /\ last' = Step("flow_ends", tokens[token].src, token, TRUE,
                    IF tokens[token].kind = "verify"
                    THEN <<Frame(tokens[token].src, "GC_REGISTER_ACK", tokens[token].sid, EmptyString)>>
                    ELSE <<Frame(tokens[token].src, "GC_ERROR", "NO_CONNECTION", tokens[token].sid)>>,
                    NoCall, FALSE)
    /\ UNCHANGED <<servers, ordinal, conn, srv, wait, tasks, order, newgrf>>

\* ------------------------------------- SERCLI_CONNECT_FAILED (235-242)

\* ConnectFailedMiss closing the connection, as CLIENT_CONNECTED does.
ConnectFailedMissCloses(c, source) == [c EXCEPT ![source] = "closed"]

\* Lines 237-239: the token is unknown; the connection is not closed.
ConnectFailedMiss(c, source) == c

\* Lines 235-242. On a hit the flow's connect_failed(tracking_number) runs: it
\* moves to its next method, or ignores an outdated tracking number.
SERCLI_CONNECT_FAILED(source, wire) ==
    /\ Tick
    /\ Ready(source)
    /\ LET found == Resolve(tokens, wire)
       IN IF found = {}
          THEN /\ conn' = ConnectFailedMiss(conn, source)
               /\ last' = Step("SERCLI_CONNECT_FAILED", source, wire[2], FALSE, <<>>, NoCall, FALSE)
          ELSE /\ conn' = conn
               /\ last' = Step("SERCLI_CONNECT_FAILED", source, wire[2], TRUE, <<>>,
                               <<wire[2], "connect_failed">>, FALSE)
    /\ UNCHANGED <<servers, tokens, ordinal, srv, wait, tasks, order, newgrf>>

\* ------------------------------------------------- stun_result (129-135)

\* Lines 129-135, called by the database. On a hit the flow's stun_result runs.
stun_result(wire) ==
    /\ Tick
    /\ LET found == Resolve(tokens, wire)
       IN last' = Step("stun_result", NoPeer, wire[2], found # {}, <<>>,
                       IF found = {} THEN NoCall ELSE <<wire[2], "stun_result">>, FALSE)
    /\ UNCHANGED <<servers, tokens, ordinal, conn, srv, wait, tasks, order, newgrf>>

\* ------------------------------------------- CLIENT_CONNECTED (244-252)

\* Lines 246-248: the token is unknown.
ConnectedMiss(c, source) == CloseTransport(c, source)

\* Lines 245-251, up to the suspension in "await token.connected()": the flow
\* is told it is connected and stops trying methods.
CLIENT_CONNECTED(source, wire) ==
    /\ Tick
    /\ Ready(source)
    /\ LET found == Resolve(tokens, wire)
       IN IF found = {}
          THEN /\ conn' = ConnectedMiss(conn, source)
               /\ last' = Step("CLIENT_CONNECTED", source, wire[2], FALSE, <<>>, NoCall, FALSE)
               /\ UNCHANGED <<tokens, wait>>
          ELSE /\ tokens' = [tokens EXCEPT ![wire[2]].state = "connected"]
               /\ wait' = [wait EXCEPT ![source] = <<"CLIENT_CONNECTED", wire[2]>>]
               /\ last' = Step("CLIENT_CONNECTED", source, wire[2], TRUE, <<>>,
                               <<wire[2], "connected">>, FALSE)
               /\ conn' = conn
    /\ UNCHANGED <<servers, ordinal, srv, tasks, order, newgrf>>

\* Line 252: self.delete_token(token.token) once token.connected() returned.
\* del raises KeyError when the key is gone; the handler ends either way.
CLIENT_CONNECTED_delete(source) ==
    /\ Tick
    /\ wait[source] # Idle
    /\ wait[source][1] = "CLIENT_CONNECTED"
    /\ LET token == wait[source][2]
       IN IF token \in DOMAIN tokens
          THEN /\ tokens' = delete_token(tokens, token)
               /\ last' = Step("CLIENT_CONNECTED_delete", source, token, TRUE, <<>>, NoCall, FALSE)
          ELSE /\ tokens' = tokens
               /\ last' = Step("CLIENT_CONNECTED_delete", source, token, FALSE, <<>>, NoCall, TRUE)
    /\ wait' = [wait EXCEPT ![source] = Idle]
    /\ UNCHANGED <<servers, ordinal, conn, srv, tasks, order, newgrf>>

\* ------------------------------------------- disconnect, remove_server

\* Lines 49-51: a session with a server attribute gets remove_server scheduled.
disconnect(source) ==
    /\ Tick
    /\ conn[source] # "gone"
    /\ conn' = [conn EXCEPT ![source] = "gone"]
    /\ tasks' = IF srv[source] # NoServer
                THEN Append(tasks, <<"remove_server", srv[source]>>)
                ELSE tasks
    /\ last' = Step("disconnect", source, srv[source], srv[source] # NoServer, <<>>, NoCall, FALSE)
    /\ UNCHANGED <<servers, tokens, ordinal, srv, wait, order, newgrf>>

RemoveServerTasksForgotten(reg, server_id, queue) == queue

\* Lines 137-142: the tasks after remove_server(server_id) ran with the
\* registry reg.
RemoveServerTasks(reg, server_id, queue) ==
    IF server_id \notin DOMAIN reg
    THEN queue
    ELSE Append(queue, <<"Server.disconnect", server_id, reg[server_id].src>>)

\* Lines 137-142: the registry after remove_server(server_id).
RemoveServerRegistry(reg, server_id) ==
    IF server_id \notin DOMAIN reg THEN reg ELSE Without(reg, server_id)

\* The task disconnect() created runs remove_server.
remove_server_task ==
    /\ Tick
    /\ tasks # <<>>
    /\ Head(tasks)[1] = "remove_server"
    /\ LET server_id == Head(tasks)[2]
       IN /\ tasks' = RemoveServerTasks(servers, server_id, Tail(tasks))
          /\ servers' = RemoveServerRegistry(servers, server_id)
          /\ order' = KeyDeleted(order, server_id)
          /\ last' = Step("remove_server", NoPeer, server_id, server_id \in DOMAIN servers,
                          <<>>, NoCall, FALSE)
    /\ UNCHANGED <<tokens, ordinal, conn, srv, wait, newgrf>>

\* The database signals the deletion of a server: it awaits remove_server.
remove_server(server_id) ==
    /\ Tick
    /\ tasks' = RemoveServerTasks(servers, server_id, tasks)
    /\ servers' = RemoveServerRegistry(servers, server_id)
    /\ order' = KeyDeleted(order, server_id)
    /\ last' = Step("remove_server", NoPeer, server_id, server_id \in DOMAIN servers,
                    <<>>, NoCall, FALSE)
    /\ UNCHANGED <<tokens, ordinal, conn, srv, wait, newgrf>>

\* The flows that refer to the server object stored under server_id for the
\* session ssrc.
FlowsOf(tbl, server_id, ssrc) ==
    {t \in DOMAIN tbl : tbl[t].sid = server_id /\ tbl[t].ssrc = ssrc}

\* The task remove_server created runs the server's disconnect(): the flows
\* that refer to the server are cancelled and drop their tokens.
server_disconnect_task ==
    /\ Tick
    /\ tasks # <<>>
    /\ Head(tasks)[1] = "Server.disconnect"
    /\ LET server_id == Head(tasks)[2]
           ssrc == Head(tasks)[3]
           gone == FlowsOf(tokens, server_id, ssrc)
       IN /\ tokens' = [t \in DOMAIN tokens \ gone |-> tokens[t]]
          /\ last' = Step("Server.disconnect", ssrc, server_id, gone # {}, <<>>, NoCall, FALSE)
    /\ tasks' = Tail(tasks)
    /\ UNCHANGED <<servers, ordinal, conn, srv, wait, order, newgrf>>

\* ---------------------------------------- update_external_server (65-73)

\* Lines 66-67: the entry is created when the server_id is not in the registry.
EnsureExternal(reg, server_id) ==
    IF server_id \notin DOMAIN reg THEN With(reg, server_id, ExternalServer) ELSE reg

\* ServerExternal.update, update_newgrf and update_direct_ip: the field of the
\* entry takes the value the database sent.
Updated(server, field, value) == [server EXCEPT ![field] = value]

UpdateExternalAnyKind(reg, server_id, field, value) ==
    LET made == EnsureExternal(reg, server_id)
    IN [made EXCEPT ![server_id] = Updated(@, field, value)]

\* Lines 66-73, 76-83 and 86-93: the entry is created when absent; an entry
\* that is not a ServerExternal is logged and left alone; a ServerExternal is
\* updated.
UpdateExternal(reg, server_id, field, value) ==
    LET made == EnsureExternal(reg, server_id)
    IN IF made[server_id].kind # "External"
       THEN made
       ELSE [made EXCEPT ![server_id] = Updated(@, field, value)]

\* What the three callbacks share: op names the callback, method the method of
\* ServerExternal it awaits and field the field that method sets.
ExternalCallback(op, server_id, method, field, value) ==
    /\ servers' = UpdateExternal(servers, server_id, field, value)
    /\ order' = KeyStored(order, server_id)
    /\ LET external == EnsureExternal(servers, server_id)[server_id].kind = "External"
       IN last' = Step(op, NoPeer, server_id, external, <<>>,
                       IF external THEN <<server_id, method, value>> ELSE NoCall, FALSE)
    /\ UNCHANGED <<tokens, ordinal, conn, srv, wait, tasks, newgrf>>

\* Lines 65-73, called by the database.
update_external_server(server_id, info) ==
    /\ Tick
    /\ ExternalCallback("update_external_server", server_id, "update", "info", info)

\* Lines 75-83, called by the database.
update_newgrf_external_server(server_id, newgrfs_indexed) ==
    /\ Tick
    /\ ExternalCallback("update_newgrf_external_server", server_id, "update_newgrf",
                        "newgrfs", newgrfs_indexed)

\* Lines 85-93, called by the database; ip stands for (type, ip, port).
update_external_direct_ip(server_id, ip) ==
    /\ Tick
    /\ ExternalCallback("update_external_direct_ip", server_id, "update_direct_ip", "ip", ip)

\* ------------------------------------------ send_server_* forwards (95-127)

ForwardTargetAnyKind(reg, server_id) ==
    IF server_id \notin DOMAIN reg THEN {} ELSE {reg[server_id].src}

\* Lines 96-101, 112-117 and 120-125: the session the forward reaches: none
\* when the server_id is not in the registry or the entry is a ServerExternal.
ForwardTarget(reg, server_id) ==
    IF server_id \notin DOMAIN reg
    THEN {}
    ELSE IF reg[server_id].kind = "External" THEN {} ELSE {reg[server_id].src}

\* What the three forwards share: the Server sends the frame to its session.
Forward(op, server_id, name, token) ==
    /\ LET target == ForwardTarget(servers, server_id)
       IN last' = Step(op, NoPeer, server_id, target # {},
                       IF target = {}
                       THEN <<>>
                       ELSE <<Frame(CHOOSE p \in target : TRUE, name, token, EmptyString)>>,
                       NoCall, FALSE)
    /\ UNCHANGED <<servers, tokens, ordinal, conn, srv, wait, tasks, order, newgrf>>

\* Lines 95-103, called by the database.
send_server_stun_request(server_id, token) ==
    /\ Tick
    /\ Forward("send_server_stun_request", server_id, "GC_STUN_REQUEST", token)

\* Lines 105-117, called by the database.
send_server_stun_connect(server_id, token) ==
    /\ Tick
    /\ Forward("send_server_stun_connect", server_id, "GC_STUN_CONNECT", token)

\* Lines 119-127, called by the database.
send_server_connect_failed(server_id, token) ==
    /\ Tick
    /\ Forward("send_server_connect_failed", server_id, "GC_CONNECT_FAILED", token)

\* ------------------------------------------- the NewGRF lookup table (56-63)

\* The indices the database assigns, and the (grfid, md5sum) of a NewGRF.
GrfIndices == {1, 2, 3}
NewGRFs == {<<"g1", "m1">>, <<"g1", "m2">>, <<"g2", "m1">>}

GrfEntry(index, grf) == [index |-> index, grfid |-> grf[1], md5sum |-> grf[2]]

\* The places of the table whose entry has the grfid and the md5sum.
Matching(tbl, grfid, md5sum) ==
    {i \in 1..Len(tbl) : tbl[i].grfid = grfid /\ tbl[i].md5sum = md5sum}

\* The table without the entry at place k.
WithoutPlace(tbl, k) == SubSeq(tbl, 1, k - 1) \o SubSeq(tbl, k + 1, Len(tbl))

\* Line 57: self._newgrf_lookup_table[index] = newgrf; the index keeps its
\* place when the table holds it, and goes last otherwise.
TableStored(tbl, index, grf) ==
    IF \E i \in 1..Len(tbl) : tbl[i].index = index
    THEN [i \in 1..Len(tbl) |-> IF tbl[i].index = index THEN GrfEntry(index, grf) ELSE tbl[i]]
    ELSE Append(tbl, GrfEntry(index, grf))

TableRemovedAllMatching(tbl, grfid, md5sum) ==
    SelectSeq(tbl, LAMBDA e : ~(e.grfid = grfid /\ e.md5sum = md5sum))

\* Lines 60-63: the loop deletes the first entry that matches and returns.
TableRemoved(tbl, grfid, md5sum) ==
    LET found == Matching(tbl, grfid, md5sum)
    IN IF found = {}
       THEN tbl
       ELSE WithoutPlace(tbl, CHOOSE k \in found : \A j \in found : k <= j)

\* Lines 56-57, called by the database.
newgrf_added(index, grf) ==
    /\ Tick
    /\ newgrf' = TableStored(newgrf, index, grf)
    /\ last' = Step("newgrf_added", NoPeer, <<index, grf[1], grf[2]>>,
                    TRUE, <<>>, NoCall, FALSE)
    /\ UNCHANGED <<servers, tokens, ordinal, conn, srv, wait, tasks, order>>

\* Lines 59-63, called by the database.
remove_newgrf_from_table(grfid, md5sum) ==
    /\ Tick
    /\ newgrf' = TableRemoved(newgrf, grfid, md5sum)
    /\ last' = Step("remove_newgrf_from_table", NoPeer, <<grfid, md5sum>>,
                    Matching(newgrf, grfid, md5sum) # {}, <<>>, NoCall, FALSE)
    /\ UNCHANGED <<servers, tokens, ordinal, conn, srv, wait, tasks, order>>

\* ------------------------------------------------- SERVER_UPDATE (178-182)

\* Lines 181 and 182: source.server is updated; the registry shows it while
\* the entry under the server's id is still that Server.
ServerUpdated(reg, source, server_id, field, value) ==
    IF server_id \in DOMAIN reg /\ reg[server_id].kind = "Local" /\ reg[server_id].src = source
    THEN [reg EXCEPT ![server_id] = Updated(@, field, value)]
    ELSE reg

\* Lines 178-181, up to the suspension in "await source.server.update_newgrf":
\* the server's NewGRFs are set. A session without a server attribute raises
\* AttributeError and the handler ends.
SERVER_UPDATE(source, newgrfs, info) ==
    /\ Tick
    /\ Ready(source)
    /\ IF srv[source] = NoServer
       THEN UNCHANGED <<servers, wait>>
       ELSE /\ servers' = ServerUpdated(servers, source, srv[source], "newgrfs", newgrfs)
            /\ wait' = [wait EXCEPT ![source] = <<"SERVER_UPDATE", info>>]
    /\ last' = Step("SERVER_UPDATE", source, srv[source], srv[source] # NoServer, <<>>,
                    NoCall, srv[source] = NoServer)
    /\ UNCHANGED <<tokens, ordinal, conn, srv, tasks, order, newgrf>>

\* Line 182, after update_newgrf returned: "await source.server.update(info)"
\* sets the server's info.
SERVER_UPDATE_info(source) ==
    /\ Tick
    /\ wait[source] # Idle
    /\ wait[source][1] = "SERVER_UPDATE"
    /\ servers' = ServerUpdated(servers, source, srv[source], "info", wait[source][2])
    /\ wait' = [wait EXCEPT ![source] = Idle]
    /\ last' = Step("SERVER_UPDATE_info", source, srv[source], TRUE, <<>>, NoCall, FALSE)
    /\ UNCHANGED <<tokens, ordinal, conn, srv, tasks, order, newgrf>>

\* The connection type of a server is decided: by its verify flow for a
\* Local server, by the instance that owns it for an External one.
Classifications == {"DIRECT", "ISOLATED"}

classified(server_id, connection_type) ==
    /\ Tick
    /\ server_id \in DOMAIN servers
    /\ servers' = [servers EXCEPT ![server_id] = Updated(@, "ctype", connection_type)]
    /\ last' = Step("classified", servers[server_id].src, server_id, TRUE, <<>>, NoCall, FALSE)
    /\ UNCHANGED <<tokens, ordinal, conn, srv, wait, tasks, order, newgrf>>

\* ------------------------------------------------ CLIENT_LISTING (184-211)

\* Line 187: the lowest protocol version that is sent the NewGRF lookup table.
LookupProtocolVersion == 4

ProtocolVersions == {3, 4, 5}
Cursors == {0, 1}

LookupDueAnyVersion(protocol_version, tbl) == tbl # <<>>

\* Line 187: protocol_version >= 4 and self._newgrf_lookup_table
LookupDue(protocol_version, tbl) == protocol_version >= LookupProtocolVersion /\ tbl # <<>>

\* The frame GC_NEWGRF_LOOKUP: of the table the handler passes, the entries
\* past the client's cursor.
GC_NEWGRF_LOOKUP(to, cursor, tbl) ==
    Frame(to, "GC_NEWGRF_LOOKUP", cursor, SelectSeq(tbl, LAMBDA e : e.index > cursor))

\* Lines 197-202: the server is reachable and has finished its registration.
Listable(server) == server.ctype # "ISOLATED" /\ server.info # NoInfo

ServersListedUnsorted(reg, keys, openttd_version) ==
    SelectSeq(keys, LAMBDA id : Listable(reg[id]))

\* Lines 193-209: servers_match + servers_other, each in the order the
\* registry iterates.
ServersListed(reg, keys, openttd_version) ==
    SelectSeq(keys, LAMBDA id : Listable(reg[id]) /\ reg[id].info = openttd_version)
        \o SelectSeq(keys, LAMBDA id : Listable(reg[id]) /\ reg[id].info # openttd_version)

\* Lines 193-210: the frame GC_LISTING for the registry as it is now.
GC_LISTING(to, openttd_version) ==
    Frame(to, "GC_LISTING", ServersListed(servers, order, openttd_version), newgrf)

\* Lines 184-210. With a lookup table to send the handler suspends at the send
\* of GC_NEWGRF_LOOKUP (line 188); otherwise it goes on to send GC_LISTING.
CLIENT_LISTING(source, protocol_version, openttd_version, cursor) ==
    /\ Tick
    /\ Ready(source)
    /\ IF LookupDue(protocol_version, newgrf)
       THEN /\ wait' = [wait EXCEPT ![source] = <<"CLIENT_LISTING", protocol_version,
                                                  openttd_version, cursor>>]
            /\ last' = Step("CLIENT_LISTING", source, <<protocol_version, openttd_version, cursor>>,
                            TRUE, <<GC_NEWGRF_LOOKUP(source, cursor, newgrf)>>, NoCall, FALSE)
       ELSE /\ wait' = wait
            /\ last' = Step("CLIENT_LISTING", source, <<protocol_version, openttd_version, cursor>>,
                            FALSE, <<GC_LISTING(source, openttd_version)>>, NoCall, FALSE)
    /\ UNCHANGED <<servers, tokens, ordinal, conn, srv, tasks, order, newgrf>>

\* Lines 192-210, after the send of GC_NEWGRF_LOOKUP returned.
CLIENT_LISTING_list(source) ==
    /\ Tick
    /\ wait[source] # Idle
    /\ wait[source][1] = "CLIENT_LISTING"
    /\ last' = Step("CLIENT_LISTING_list", source, <<wait[source][2], wait[source][3], wait[source][4]>>,
                    TRUE, <<GC_LISTING(source, wait[source][3])>>, NoCall, FALSE)
    /\ wait' = [wait EXCEPT ![source] = Idle]
    /\ UNCHANGED <<servers, tokens, ordinal, conn, srv, tasks, order, newgrf>>

\* ------------------------------------------------------------ specification

Next ==
    \/ \E p \in Peers, c \in InviteInputs, s \in SecretInputs : SERVER_REGISTER(p, c, s)
    \/ \E p \in Peers, c \in InviteInputs : CLIENT_CONNECT_invalid(p, c)
    \/ \E p \in Peers : CLIENT_CONNECT_close(p)
    \/ \E p \in Peers, c \in InviteInputs : CLIENT_CONNECT_bind(p, c)
    \/ \E p \in Peers : CLIENT_CONNECT_start(p)
    \/ \E p \in Peers, w \in WireTokens : SERCLI_CONNECT_FAILED(p, w)
    \/ \E p \in Peers, w \in WireTokens : CLIENT_CONNECTED(p, w)
    \/ \E p \in Peers : CLIENT_CONNECTED_delete(p)
    \/ \E w \in WireTokens : stun_result(w)
    \/ \E t \in TokenKeys : FlowEnds(t)
    \/ \E p \in Peers : disconnect(p)
    \/ remove_server_task
    \/ \E c \in Codes : remove_server(c)
    \/ server_disconnect_task
    \/ \E c \in Codes : update_external_server(c, "v1")

Spec == Init /\ [][Next]_vars

\* The values the database sends for a server's NewGRFs and direct IP.
GrfLists == {"grfs1"}
Endpoints == {"ip1"}

\* The database's callbacks and forwards, with servers that register with no
\* invite code and servers the database deletes.
NextDatabase ==
    \/ \E p \in Peers : SERVER_REGISTER(p, EmptyString, EmptyString)
    \/ \E c \in Codes, i \in Versions : update_external_server(c, i)
    \/ \E c \in Codes, n \in GrfLists : update_newgrf_external_server(c, n)
    \/ \E c \in Codes, e \in Endpoints : update_external_direct_ip(c, e)
    \/ \E c \in Codes, w \in WireTokens : send_server_stun_request(c, w)
    \/ \E c \in Codes, w \in WireTokens : send_server_stun_connect(c, w)
    \/ \E c \in Codes, w \in WireTokens : send_server_connect_failed(c, w)
    \/ \E c \in Codes : remove_server(c)

SpecDatabase == Init /\ [][NextDatabase]_vars

\* The database's additions to and removals from the NewGRF lookup table.
NextNewGRF ==
    \/ \E i \in GrfIndices, g \in NewGRFs : newgrf_added(i, g)
    \/ \E g \in NewGRFs : remove_newgrf_from_table(g[1], g[2])

SpecNewGRF == Init /\ [][NextNewGRF]_vars

\* The registry as servers register, with no invite code or with the valid
\* pair of a code, report their info, are classified and
\* are reported or deleted by the database, and the listings clients ask for
\* while the NewGRF lookup table is empty.
NextListing ==
    \/ \E p \in Peers : SERVER_REGISTER(p, EmptyString, EmptyString)
    \/ \E p \in Peers, c \in Codes :
          SERVER_REGISTER(p, c, generate_invite_code_secret(SharedSecret, c))
    \/ \E p \in Peers, n \in GrfLists, i \in Versions : SERVER_UPDATE(p, n, i)
    \/ \E p \in Peers : SERVER_UPDATE_info(p)
    \/ \E c \in Codes, i \in Versions : update_external_server(c, i)
    \/ \E c \in Codes, t \in Classifications : classified(c, t)
    \/ \E c \in Codes : remove_server(c)
    \/ \E p \in Peers, v \in Versions : CLIENT_LISTING(p, LookupProtocolVersion, v, 0)

SpecListing == Init /\ [][NextListing]_vars

\* The NewGRF lookup table as the database fills it, servers the database
\* reports, and the listings clients of every protocol version ask for.
NextLookup ==
    \/ \E i \in GrfIndices \ {3}, g \in {<<"g1", "m1">>} : newgrf_added(i, g)
    \/ \E g \in {<<"g1", "m1">>} : remove_newgrf_from_table(g[1], g[2])
    \/ \E c \in Codes : update_external_server(c, "v1")
    \/ \E p \in Peers, pv \in ProtocolVersions, v \in Versions, k \in Cursors :
          CLIENT_LISTING(p, pv, v, k)
    \/ \E p \in Peers : CLIENT_LISTING_list(p)

SpecLookup == Init /\ [][NextLookup]_vars

\* The coordinator with a connect flow under way: the database reported the
\* server +1, the session p1 asked to connect to it and its flow, bound under
\* the token t1, is trying its first method.
InitConnecting ==
    LET code == generate_invite_code(1)
    IN /\ servers = code :> Updated(ExternalServer, "info", "v1")
       /\ order = <<code>>
       /\ tokens = "t1" :> [TokenConnect("p1", code, ExternalServer) EXCEPT !.state = "trying"]
       /\ ordinal = 0
       /\ conn = [p \in Peers |-> "open"]
       /\ srv = [p \in Peers |-> NoServer]
       /\ wait = [p \in Peers |-> Idle]
       /\ tasks = <<>>
       /\ newgrf = <<>>
       /\ steps = 0
       /\ last = Step("CLIENT_CONNECT_start", "p1", "t1", TRUE, <<>>, <<"t1", "connect">>, FALSE)

\* The handlers of the frames that carry a token, and the end of a flow.
NextTokens ==
    \/ \E p \in Peers, c \in Codes : CLIENT_CONNECT_bind(p, c)
    \/ \E p \in Peers : CLIENT_CONNECT_start(p)
    \/ \E p \in Peers, w \in WireTokens : SERCLI_CONNECT_FAILED(p, w)
    \/ \E p \in Peers, w \in WireTokens : CLIENT_CONNECTED(p, w)
    \/ \E p \in Peers : CLIENT_CONNECTED_delete(p)
    \/ \E t \in TokenKeys : FlowEnds(t)

SpecTokens == InitConnecting /\ [][NextTokens]_vars

\* ------------------------------------------------------------------ claims

\* The step taken is a step of handler op.
Took(op) == steps' = steps + 1 /\ last'.op = op

\* The session whose SERVER_REGISTER the step taken handled, and the invite
\* code it presented (none when the step is another handler's).
Registrant == IF Took("SERVER_REGISTER") THEN {last'.src} ELSE {}
Presented == IF Took("SERVER_REGISTER") THEN {last'.arg} ELSE {}

\* The entries of d other than d[k] are the same in e.
SameExcept(d, e, k) ==
    /\ DOMAIN d \ {k} = DOMAIN e \ {k}
    /\ \A x \in DOMAIN d \ {k} : e[x] = d[x]

\* The pair a peer presents is valid: both fields are given, the code starts
\* with "+" and the secret validates under the shared secret.
PresentsValidPair(c, s) ==
    /\ c # EmptyString
    /\ s # EmptyString
    /\ c[1] = "+"
    /\ validate_invite_code_secret(SharedSecret, c, s)

\* C1 as stated: when SERVER_REGISTER presents a valid pair whose code is held
\* by an External entry, the Local server is not inserted and the External
\* entry is still the registry entry for that code.
C1_ExternalEntryKept ==
    [][\A p \in Registrant, c \in Presented, s \in SecretInputs :
          (/\ SERVER_REGISTER(p, c, s)
           /\ PresentsValidPair(c, s)
           /\ KindOf(servers, c) = "External")
          => servers'[c] = servers[c]]_vars

\* C1 amended: when SERVER_REGISTER presents a valid pair whose code is held by
\* an External entry, the Local server of the registering session replaces the
\* External entry under that code; every other registry entry is unchanged.
C1_ExternalEntryReplaced ==
    [][\A p \in Registrant, c \in Presented, s \in SecretInputs :
          (/\ SERVER_REGISTER(p, c, s)
           /\ PresentsValidPair(c, s)
           /\ KindOf(servers, c) = "External")
          => /\ servers'[c] = LocalServer(p, s)
             /\ srv'[p] = c
             /\ DOMAIN servers' = DOMAIN servers
             /\ SameExcept(servers, servers', c)]_vars

\* A valid pair was registered over an External entry.
C1_Witness ==
    /\ last.op = "SERVER_REGISTER"
    /\ last.hit
    /\ last.prev = "External"
    /\ servers[last.arg].kind = "Local"

\* The Local entries of the registry bound to session p.
LocalEntriesOf(p) ==
    {id \in DOMAIN servers : servers[id].kind = "Local" /\ servers[id].src = p}

\* C2: the registry holds at most one Local entry bound to a given peer
\* session, whatever SERVER_REGISTER frames the session sent.
C2_OneLocalEntryPerSession ==
    \A p \in Peers : Cardinality(LocalEntriesOf(p)) <= 1

\* No task is waiting and no handler is suspended.
Quiescent == tasks = <<>> /\ \A p \in Peers : wait[p] = Idle

\* C3: once disconnect(source) was called and the scheduled work has run, the
\* registry holds no server bound to that session and the token table holds no
\* flow created for it.
C3_CleanAfterDisconnect ==
    \A p \in Peers :
        (conn[p] = "gone" /\ Quiescent)
        => /\ LocalEntriesOf(p) = {}
           /\ \A t \in DOMAIN tokens : tokens[t].src # p

\* C4: a CLIENT_CONNECTED frame whose token is not in the table
\* changes neither table, sends nothing and leaves the sender's session open.
C4_UnknownConnectedDropped ==
    [][(Took("CLIENT_CONNECTED") /\ last'.arg \notin DOMAIN tokens)
          => /\ tokens' = tokens
             /\ servers' = servers
             /\ last'.sent = <<>>
             /\ conn' = conn]_vars

\* C5: a SERCLI_CONNECT_FAILED frame or a stun_result callback whose token is
\* not in the table invokes no flow, changes neither table and leaves every
\* session open.
C5_UnknownTokenNoOp ==
    [][((Took("SERCLI_CONNECT_FAILED") \/ Took("stun_result")) /\ last'.arg \notin DOMAIN tokens)
          => /\ last'.call = NoCall
             /\ last'.sent = <<>>
             /\ tokens' = tokens
             /\ servers' = servers
             /\ conn' = conn
             /\ wait' = wait]_vars

\* A SERCLI_CONNECT_FAILED frame with an unknown token was handled while
\* another token was live, and the sender's session is open.
C5_Witness ==
    /\ last.op = "SERCLI_CONNECT_FAILED"
    /\ ~last.hit
    /\ last.arg \notin DOMAIN tokens
    /\ tokens # <<>>
    /\ conn[last.src] = "open"

\* The step taken minted a token and bound a flow to it.
Minted ==
    \/ Took("SERVER_REGISTER")
    \/ Took("CLIENT_CONNECT") /\ last'.hit

\* C6: a token minted by SERVER_REGISTER or CLIENT_CONNECT is none of the live
\* tokens: binding the new flow overwrites no live flow and the table grows by
\* exactly one entry.
C6_MintedTokenIsNew ==
    [][Minted
          => /\ Cardinality(DOMAIN tokens') = Cardinality(DOMAIN tokens) + 1
             /\ \A t \in DOMAIN tokens : t \in DOMAIN tokens' /\ tokens'[t] = tokens[t]
             /\ \E t \in DOMAIN tokens' \ DOMAIN tokens : tokens'[t].src = last'.src]_vars

\* A token was minted while another token was live.
C6_Witness ==
    /\ last.op \in {"SERVER_REGISTER", "CLIENT_CONNECT"}
    /\ last.hit
    /\ Cardinality(DOMAIN tokens) = 2

\* C7: SERVER_REGISTER with a valid pair registers the server under exactly the
\* presented code, draws no ordinal from the database and keeps the presented
\* secret as the server's secret.
C7_ValidPairReusesCode ==
    [][\A p \in Registrant, c \in Presented, s \in SecretInputs :
          (SERVER_REGISTER(p, c, s) /\ PresentsValidPair(c, s))
          => /\ c \in DOMAIN servers'
             /\ servers'[c] = LocalServer(p, s)
             /\ srv'[p] = c
             /\ ordinal' = ordinal
             /\ SameExcept(servers, servers', c)]_vars

\* A valid pair was registered and the server is stored under the presented code.
C7_Witness ==
    /\ last.op = "SERVER_REGISTER"
    /\ last.hit
    /\ last.arg \in DOMAIN servers
    /\ servers[last.arg].src = last.src
    /\ srv[last.src] = last.arg

\* C8: SERVER_REGISTER without a valid pair draws ordinals until the generated
\* code is not a key of the registry, registers the server under that code and
\* leaves every entry the registry held, the one under the presented code
\* included, unchanged.
C8_FreshCodeLeavesEntries ==
    [][\A p \in Registrant, c \in Presented, s \in SecretInputs :
          (SERVER_REGISTER(p, c, s) /\ ~PresentsValidPair(c, s))
          => LET id == generate_invite_code(ordinal')
             IN /\ ordinal' > ordinal
                /\ \A n \in (ordinal + 1)..(ordinal' - 1) : generate_invite_code(n) \in DOMAIN servers
                /\ id \notin DOMAIN servers
                /\ DOMAIN servers' = DOMAIN servers \cup {id}
                /\ servers'[id] = LocalServer(p, generate_invite_code_secret(SharedSecret, id))
                /\ srv'[p] = id
                /\ \A x \in DOMAIN servers : servers'[x] = servers[x]]_vars

\* A "+" code held by an External entry was presented without a valid secret:
\* the first ordinal drawn collided with it and the second was taken.
C8_Witness ==
    /\ last.op = "SERVER_REGISTER"
    /\ ~last.hit
    /\ last.arg = generate_invite_code(1)
    /\ last.arg \in DOMAIN servers
    /\ servers[last.arg].kind = "External"
    /\ ordinal = 2
    /\ generate_invite_code(2) \in DOMAIN servers
    /\ servers[generate_invite_code(2)].src = last.src

\* The invite code of a CLIENT_CONNECT frame is empty, does not start with "+"
\* or is not a key of the registry.
UnknownInvite(c) ==
    IF c = EmptyString THEN TRUE
    ELSE IF c[1] # "+" THEN TRUE
    ELSE c \notin DOMAIN servers

\* C9: CLIENT_CONNECT with such an invite code sends the client
\* GC_ERROR(INVALID_INVITE_CODE, invite_code) and nothing else and, when that
\* send has returned, closes its session; the handler mints no token and
\* changes neither table in either step.
C9_InvalidInviteRefused ==
    [][/\ (Took("CLIENT_CONNECT") /\ UnknownInvite(last'.arg))
          => /\ last'.sent = <<Frame(last'.src, "GC_ERROR", "INVALID_INVITE_CODE", last'.arg)>>
             /\ wait'[last'.src] = <<"CLIENT_CONNECT_refused">>
             /\ \A p \in Peers \ {last'.src} : wait'[p] = wait[p]
             /\ conn' = conn
             /\ tokens' = tokens
             /\ servers' = servers
       /\ \A p \in Peers :
             (wait[p] = <<"CLIENT_CONNECT_refused">> /\ wait'[p] # wait[p])
                => /\ Took("CLIENT_CONNECT_close") /\ last'.src = p
                   /\ wait'[p] = Idle
                   /\ conn[p] = "open" => conn'[p] = "closed"
                   /\ conn'[p] # "open"
                   /\ \A q \in Peers \ {p} : conn'[q] = conn[q]
                   /\ last'.sent = <<>>
                   /\ tokens' = tokens
                   /\ servers' = servers]_vars

\* A CLIENT_CONNECT was refused while the registry held a server, and its
\* session is closed.
C9_Witness ==
    /\ last.op = "CLIENT_CONNECT_close"
    /\ servers # <<>>
    /\ conn[last.src] = "closed"
    /\ wait[last.src] = Idle

\* C10: CLIENT_CONNECTED for a live token runs the flow's connected step and
\* leaves the table's keys alone until the handler resumes; when the handler
\* ends the token is not in the table and every other token is in place.
C10_ConnectedDropsToken ==
    [][/\ (Took("CLIENT_CONNECTED") /\ last'.arg \in DOMAIN tokens)
          => /\ last'.call = <<last'.arg, "connected">>
             /\ tokens'[last'.arg].state = "connected"
             /\ wait'[last'.src] = <<"CLIENT_CONNECTED", last'.arg>>
             /\ SameExcept(tokens, tokens', last'.arg)
             /\ conn' = conn
       /\ Took("CLIENT_CONNECTED_delete")
          => /\ wait[last'.src] = <<"CLIENT_CONNECTED", last'.arg>>
             /\ wait'[last'.src] = Idle
             /\ last'.arg \notin DOMAIN tokens'
             /\ SameExcept(tokens, tokens', last'.arg)]_vars

\* A CLIENT_CONNECTED handler ended and removed its token while another token
\* stayed in the table.
C10_Witness ==
    /\ last.op = "CLIENT_CONNECTED_delete"
    /\ last.hit
    /\ last.arg \notin DOMAIN tokens
    /\ tokens # <<>>


\* The number of disconnect steps the queue holds for the server_id.
DisconnectSteps(queue, server_id) ==
    Cardinality({i \in 1..Len(queue) :
                    queue[i][1] = "Server.disconnect" /\ queue[i][2] = server_id})

\* C17: remove_server for a server_id the registry does not hold changes
\* nothing and schedules nothing; remove_server for an entry the registry holds
\* removes it and schedules the entry's disconnect step exactly once, so the
\* steps scheduled equal the entries removed however often it is called.
C17_RemoveServerIdempotent ==
    [][Took("remove_server")
          => LET server_id == last'.arg
                 rest == IF remove_server_task THEN Tail(tasks) ELSE tasks
             IN IF server_id \in DOMAIN servers
                THEN /\ servers' = Without(servers, server_id)
                     /\ Len(tasks') = Len(rest) + 1
                     /\ DisconnectSteps(tasks', server_id)
                           = DisconnectSteps(rest, server_id) + 1
                ELSE /\ servers' = servers
                     /\ order' = order
                     /\ tasks' = rest]_vars

\* A second remove_server for a server_id already removed: the queue still
\* holds the one disconnect step of the first.
C17_Witness ==
    /\ last.op = "remove_server"
    /\ ~last.hit
    /\ DisconnectSteps(tasks, last.arg) = 1
    /\ last.arg \notin DOMAIN servers

\* The connect flows that have started a method or finished.
Started(tbl) == {t \in DOMAIN tbl : tbl[t].kind = "connect" /\ tbl[t].state # "bound"}

\* C18: in CLIENT_CONNECT for a known code the flow is bound under its token
\* when GC_CONNECTING, which carries that token with the client prefix, is
\* sent, and the flow has started no method then: the frame resolves to the
\* flow, and a flow starts only in the step after the send.
C18_BoundThenSentThenStarted ==
    [][/\ (Took("CLIENT_CONNECT") /\ last'.hit)
            => /\ Len(last'.sent) = 1
               /\ last'.sent[1].name = "GC_CONNECTING"
               /\ last'.sent[1].to = last'.src
               /\ last'.sent[1].a[1] = "C"
               /\ Resolve(tokens', last'.sent[1].a) = {last'.sent[1].a[2]}
               /\ SameFlow(tokens', last'.sent[1].a[2], last'.src, "bound")
               /\ tokens'[last'.sent[1].a[2]].sid = last'.arg
               /\ wait'[last'.src] = <<"CLIENT_CONNECT", last'.sent[1].a[2]>>
       /\ \A t \in Started(tokens') \ Started(tokens) :
             /\ t \in DOMAIN tokens
             /\ \/ Took("CLIENT_CONNECT_start") /\ last'.arg = t
                                                /\ wait[last'.src] = <<"CLIENT_CONNECT", t>>
                \/ Took("CLIENT_CONNECTED") /\ last'.arg = t]_vars

\* The flow a CLIENT_CONNECT bound has started after the frame was sent.
C18_Witness ==
    /\ last.op = "CLIENT_CONNECT_start"
    /\ SameFlow(tokens, last.arg, last.src, "trying")

\* C19: the removal a peer's disconnect scheduled removes only that peer's
\* own entry: it removes no entry bound to a session that is still connected
\* (the entry of a peer B that registered, with the valid pair, the code the
\* disconnected peer A held before).
C19_DisconnectRemovesOwnEntry ==
    [][remove_server_task
          => \A id \in DOMAIN servers \ DOMAIN servers' :
                servers[id].kind = "Local" => conn[servers[id].src] # "open"]_vars

\* The step taken is one of the three callbacks for External servers, and
\* the field of the entry the callback writes.
TookExternalCallback ==
    \/ Took("update_external_server")
    \/ Took("update_newgrf_external_server")
    \/ Took("update_external_direct_ip")

CallbackField ==
    IF last'.op = "update_external_server" THEN "info"
    ELSE IF last'.op = "update_newgrf_external_server" THEN "newgrfs" ELSE "ip"

ServerFields == {"kind", "src", "secret", "ctype", "info", "newgrfs", "ip"}

\* C13: update_external_server, update_newgrf_external_server and
\* update_external_direct_ip create an External entry when the code is absent,
\* set the field they carry on an External entry, and leave a Local entry as
\* it is; no other entry changes.
C13_CallbacksSpareLocal ==
    [][TookExternalCallback
          => LET server_id == last'.arg
                 before == IF server_id \in DOMAIN servers
                           THEN servers[server_id] ELSE ExternalServer
             IN /\ server_id \in DOMAIN servers'
                /\ SameExcept(servers, servers', server_id)
                /\ servers'[server_id].kind = before.kind
                /\ IF before.kind = "Local"
                   THEN servers'[server_id] = before /\ last'.call = NoCall
                   ELSE /\ last'.call # NoCall
                        /\ servers'[server_id][CallbackField] = last'.call[3]
                        /\ \A f \in ServerFields \ {CallbackField} :
                              servers'[server_id][f] = before[f]]_vars

\* A callback met a Local entry.
C13_Witness ==
    /\ last.op \in {"update_external_server", "update_newgrf_external_server",
                    "update_external_direct_ip"}
    /\ ~last.hit
    /\ last.arg \in DOMAIN servers
    /\ servers[last.arg].kind = "Local"

\* The step taken is one of the three forwards to a server.
TookForward ==
    \/ Took("send_server_stun_request")
    \/ Took("send_server_stun_connect")
    \/ Took("send_server_connect_failed")

\* C14: send_server_stun_request, send_server_stun_connect and
\* send_server_connect_failed send a frame, to the server's own session, only
\* when the server_id is a Local entry; for an absent or External server_id
\* nothing is sent; the registry and the token table never change and nothing
\* is raised.
C14_ForwardsOnlyToLocal ==
    [][TookForward
          => /\ servers' = servers /\ order' = order /\ tokens' = tokens
             /\ conn' = conn /\ wait' = wait /\ tasks' = tasks
             /\ ~last'.fault
             /\ IF last'.arg \in DOMAIN servers /\ servers[last'.arg].kind = "Local"
                THEN /\ Len(last'.sent) = 1
                     /\ last'.sent[1].to = servers[last'.arg].src
                     /\ last'.sent[1].to \in Peers
                ELSE last'.sent = <<>>]_vars

\* A forward for an External server was dropped.
C14_Witness ==
    /\ last.op \in {"send_server_stun_request", "send_server_stun_connect",
                    "send_server_connect_failed"}
    /\ last.arg \in DOMAIN servers
    /\ servers[last.arg].kind = "External"
    /\ last.sent = <<>>

\* The entry the table maps the index to (none when the index is not a key).
EntryAt(tbl, index) == {tbl[i] : i \in {j \in 1..Len(tbl) : tbl[j].index = index}}

\* C16: newgrf_added(index, newgrf) makes the table map index to newgrf and
\* leaves every other index as it was; remove_newgrf_from_table(grfid, md5sum)
\* removes the first entry in table order whose grfid and md5sum both match
\* and no other entry, and changes nothing when no entry matches.
C16_TableAddAndRemoveFirst ==
    [][/\ Took("newgrf_added")
            => /\ EntryAt(newgrf', last'.arg[1])
                     = {[index |-> last'.arg[1], grfid |-> last'.arg[2], md5sum |-> last'.arg[3]]}
               /\ \A i \in GrfIndices \ {last'.arg[1]} :
                     EntryAt(newgrf', i) = EntryAt(newgrf, i)
       /\ Took("remove_newgrf_from_table")
            => LET hits == {i \in 1..Len(newgrf) :
                              /\ newgrf[i].grfid = last'.arg[1]
                              /\ newgrf[i].md5sum = last'.arg[2]}
               IN IF hits = {}
                  THEN newgrf' = newgrf
                  ELSE \E k \in hits :
                          /\ \A j \in hits : k <= j
                          /\ Len(newgrf') = Len(newgrf) - 1
                          /\ \A j \in 1..Len(newgrf') :
                                newgrf'[j] = IF j < k THEN newgrf[j] ELSE newgrf[j + 1]]_vars

\* A removal took the first of two matching entries: the later one is still
\* in the table.
C16_Witness ==
    /\ last.op = "remove_newgrf_from_table"
    /\ last.hit
    /\ \E i \in 1..Len(newgrf) :
          newgrf[i].grfid = last.arg[1] /\ newgrf[i].md5sum = last.arg[2]

\* The coordinator can be in the state InitConnecting describes.
ConnectingReached ==
    /\ servers = generate_invite_code(1) :> Updated(ExternalServer, "info", "v1")
    /\ order = <<generate_invite_code(1)>>
    /\ tokens = "t1" :> [TokenConnect("p1", generate_invite_code(1), ExternalServer)
                            EXCEPT !.state = "trying"]
    /\ ordinal = 0
    /\ \A p \in Peers : conn[p] = "open" /\ srv[p] = NoServer /\ wait[p] = Idle
    /\ tasks = <<>>
    /\ newgrf = <<>>
    /\ last = Step("CLIENT_CONNECT_start", "p1", "t1", TRUE, <<>>, <<"t1", "connect">>, FALSE)

\* C20: delete_token is never executed for a token the table does not hold:
\* the handler of CLIENT_CONNECTED that resumes after "await token.connected()"
\* finds its token in the table and raises no missing-key error, however the
\* handlers of two CLIENT_CONNECTED frames for one token interleave.
C20_DeleteTokenFindsKey ==
    last.op = "CLIENT_CONNECTED_delete" => last.hit /\ ~last.fault

\* The place of a key in the registry's iteration order (0 when it has none).
Place(keys, k) == IF \E i \in 1..Len(keys) : keys[i] = k
                  THEN CHOOSE i \in 1..Len(keys) : keys[i] = k
                  ELSE 0

\* The GC_LISTING frames the step taken sent.
ListingsSent == {i \in 1..Len(last'.sent) : last'.sent[i].name = "GC_LISTING"}

\* C11: the server list of GC_LISTING holds exactly the servers whose
\* connection type is not ISOLATED and whose info is present, each once; a
\* listed server of the client's openttd_version comes before every listed
\* server of another version; within each of the two groups the servers are
\* in the registry's iteration order.
C11_ListingContentAndOrder ==
    [][\A n \in ListingsSent :
          LET list == last'.sent[n].a
              version == last'.arg[2]
              mine(id) == servers[id].info = version
          IN /\ \A i \in 1..Len(list) : list[i] \in DOMAIN servers
             /\ {list[i] : i \in 1..Len(list)}
                   = {id \in DOMAIN servers :
                         servers[id].ctype # "ISOLATED" /\ servers[id].info # NoInfo}
             /\ \A i, j \in 1..Len(list) :
                   i < j => /\ list[i] # list[j]
                            /\ ~(~mine(list[i]) /\ mine(list[j]))
                            /\ (mine(list[i]) = mine(list[j]))
                                  => Place(order, list[i]) < Place(order, list[j])]_vars

\* A listing whose first server comes later in the registry's iteration than
\* its second: it has the client's version and the second has not.
C11_Witness ==
    /\ last.op = "CLIENT_LISTING"
    /\ Len(last.sent) = 1
    /\ last.sent[1].name = "GC_LISTING"
    /\ Len(last.sent[1].a) >= 2
    /\ Place(order, last.sent[1].a[1]) > Place(order, last.sent[1].a[2])

\* C12 as stated: the sequence the listing loop walks has every Local server
\* before every External one.
C12_LocalsBeforeExternals ==
    \A i, j \in 1..Len(order) :
        i < j => ~(servers[order[i]].kind = "External" /\ servers[order[j]].kind = "Local")

\* C12: the sequence the listing loop walks is the registry's keys in the
\* order they were inserted, Local and External entries alike: a step keeps
\* the relative order of the keys it keeps, leaves a key whose entry it
\* replaces in its place, and puts a key it inserts last.
C12_IterationIsInsertionOrder ==
    [][/\ {order'[i] : i \in 1..Len(order')} = DOMAIN servers'
       /\ Len(order') = Cardinality(DOMAIN servers')
       /\ \A a, b \in DOMAIN servers \cap DOMAIN servers' :
             Place(order, a) < Place(order, b) => Place(order', a) < Place(order', b)
       /\ DOMAIN servers \subseteq DOMAIN servers'
             => \A k \in DOMAIN servers : Place(order', k) = Place(order, k)
       /\ \A k \in DOMAIN servers' \ DOMAIN servers : Place(order', k) = Len(order')]_vars

\* A listing whose loop walked an External server, which it lists, before a
\* Local one.
C12_Witness ==
    /\ last.op = "CLIENT_LISTING"
    /\ Len(last.sent) = 1
    /\ last.sent[1].name = "GC_LISTING"
    /\ Len(order) >= 2
    /\ servers[order[1]].kind = "External"
    /\ servers[order[2]].kind = "Local"
    /\ Len(last.sent[1].a) >= 1
    /\ last.sent[1].a[1] = order[1]

\* The names of the frames the step taken sent, in the order it sent them.
NamesSent == [i \in 1..Len(last'.sent) |-> last'.sent[i].name]

\* C15: the handler of CLIENT_LISTING sends GC_NEWGRF_LOOKUP, and sends it
\* before GC_LISTING, whenever the protocol version is at least 4 and the
\* NewGRF table is not empty, and the frame carries the table entries past the
\* client's cursor and no other; otherwise, and always below version 4, it
\* sends no GC_NEWGRF_LOOKUP; either way it sends GC_LISTING exactly once.
C15_LookupBeforeListing ==
    [][/\ Took("CLIENT_LISTING")
            => IF last'.arg[1] >= LookupProtocolVersion /\ newgrf # <<>>
               THEN /\ NamesSent = <<"GC_NEWGRF_LOOKUP">>
                    /\ last'.sent[1].to = last'.src
                    /\ \A e \in {newgrf[i] : i \in 1..Len(newgrf)} :
                          (e.index > last'.arg[3])
                             <=> \E j \in 1..Len(last'.sent[1].b) : last'.sent[1].b[j] = e
                    /\ \A j \in 1..Len(last'.sent[1].b) :
                          \E i \in 1..Len(newgrf) : newgrf[i] = last'.sent[1].b[j]
                    /\ wait[last'.src] = Idle
                    /\ wait'[last'.src] # Idle
                    /\ wait'[last'.src][1] = "CLIENT_LISTING"
               ELSE NamesSent = <<"GC_LISTING">> /\ wait' = wait
       /\ Took("CLIENT_LISTING_list")
            => /\ NamesSent = <<"GC_LISTING">>
               /\ last'.sent[1].to = last'.src
               /\ wait[last'.src] # Idle
               /\ wait[last'.src][1] = "CLIENT_LISTING"
               /\ wait[last'.src][2] >= LookupProtocolVersion
               /\ wait'[last'.src] = Idle
       /\ \A p \in Peers :
             (wait'[p] # wait[p] /\ wait'[p] # Idle /\ wait'[p][1] = "CLIENT_LISTING")
                => Took("CLIENT_LISTING") /\ last'.src = p]_vars

\* GC_LISTING was sent after a GC_NEWGRF_LOOKUP that held back an entry the
\* client had seen.
C15_Witness ==
    /\ last.op = "CLIENT_LISTING_list"
    /\ last.sent[1].name = "GC_LISTING"
    /\ last.arg[3] > 0
    /\ \E i \in 1..Len(newgrf) : newgrf[i].index <= last.arg[3]
    /\ \E i \in 1..Len(newgrf) : newgrf[i].index > last.arg[3]
====
